---------------------------- MODULE Spec2Model ----------------------------
(***************************************************************************)
(* Model of the rule-based astrology engine of astrologyAI (App.tsx,       *)
(* lines 400-606): sun-sign lookup, numerology, Chinese zodiac, lucky      *)
(* number, the seeded daily message and the keyword-routed Q&A fallback.   *)
(*                                                                         *)
(* Text is a sequence of one-character strings.  A call of an exported     *)
(* function is one action: it draws the arguments, applies the function as *)
(* the code computes it and stores arguments and result in the call frame. *)
(*                                                                         *)
(* The App component (lines 34-142 and the handlers in its JSX) is modelled*)
(* by its state hooks; a handler is one action, and the one suspension     *)
(* point, the await of the chat completion request in handleAsk, splits    *)
(* handleAsk into the step up to the await and the step that resumes it.   *)
(***************************************************************************)
EXTENDS Integers, Sequences, FiniteSets, TLC

VARIABLES pc, arg, ret

\* the state hooks of App (lines 35-47); pending is the suspended handleAsk,
\* with the question and profile it passed to askLLM; answeredFor records the
\* profile passed to the call that produced the response now held
VARIABLES mode, apiKey, input, question, profile, response, loading, pending,
          answeredFor

appVars == <<mode, apiKey, input, question, profile, response, loading, pending,
             answeredFor>>

frame == <<pc, arg, ret>>

vars == <<pc, arg, ret, mode, apiKey, input, question, profile, response,
          loading, pending, answeredFor>>

(***************************************************************************)
(* Bounds of the enumerated inputs.                                        *)
(***************************************************************************)
\* longest name handed to dailyMessage
MaxNameLen == 2
\* most tokens a question handed to qaFallback is built from
MaxWords == 2
\* the month and day numbers handed to the sign scan range over
\* -ScanSpan..ScanSpan
ScanSpan == 34

(***************************************************************************)
(* JavaScript primitives the engine uses.                                  *)
(***************************************************************************)
NaN == "NaN"
undefined == "undefined"

DigitChars == <<"0", "1", "2", "3", "4", "5", "6", "7", "8", "9">>

IsDigit(c) == \E i \in 1..10 : DigitChars[i] = c

DigitVal(c) == (CHOOSE i \in 1..10 : DigitChars[i] = c) - 1

\* Number(text) for the texts the engine meets: decimal digits (leading
\* zeros allowed), the empty text (0); anything else is NaN.
RECURSIVE DecimalValue(_)
DecimalValue(t) ==
    IF t = <<>> THEN 0
    ELSE 10 * DecimalValue(SubSeq(t, 1, Len(t) - 1)) + DigitVal(t[Len(t)])

Number(t) ==
    IF \A i \in 1..Len(t) : IsDigit(t[i]) THEN DecimalValue(t) ELSE NaN

\* n.toString() for an integer n >= 0
RECURSIVE toString(_)
toString(n) ==
    IF n < 10 THEN <<DigitChars[n + 1]>>
    ELSE toString(n \div 10) \o <<DigitChars[(n % 10) + 1]>>

\* text.split(sep) for a one-character separator
RECURSIVE SplitFrom(_, _, _)
SplitFrom(t, sep, cur) ==
    IF t = <<>> THEN <<cur>>
    ELSE IF Head(t) = sep THEN <<cur>> \o SplitFrom(Tail(t), sep, <<>>)
    ELSE SplitFrom(Tail(t), sep, Append(cur, Head(t)))

split(t, sep) == SplitFrom(t, sep, <<>>)

\* a % b of JavaScript: the remainder has the sign of the dividend
JsRem(a, b) == IF a >= 0 THEN a % b ELSE -((-a) % b)

\* xs.reduce((a,b) => a+b, 0)
RECURSIVE SumSeq(_)
SumSeq(xs) == IF xs = <<>> THEN 0 ELSE Head(xs) + SumSeq(Tail(xs))

\* array[i]: undefined outside 0..length-1
At(xs, i) == IF i \in 0..(Len(xs) - 1) THEN xs[i + 1] ELSE undefined

(***************************************************************************)
(* Sun sign.                                                               *)
(***************************************************************************)
SIGN_TABLE == <<
    [name |-> "Capricorn",   start |-> <<12, 22>>, end |-> <<1, 19>>,  element |-> "Earth", modality |-> "Cardinal"],
    [name |-> "Aquarius",    start |-> <<1, 20>>,  end |-> <<2, 18>>,  element |-> "Air",   modality |-> "Fixed"],
    [name |-> "Pisces",      start |-> <<2, 19>>,  end |-> <<3, 20>>,  element |-> "Water", modality |-> "Mutable"],
    [name |-> "Aries",       start |-> <<3, 21>>,  end |-> <<4, 19>>,  element |-> "Fire",  modality |-> "Cardinal"],
    [name |-> "Taurus",      start |-> <<4, 20>>,  end |-> <<5, 20>>,  element |-> "Earth", modality |-> "Fixed"],
    [name |-> "Gemini",      start |-> <<5, 21>>,  end |-> <<6, 20>>,  element |-> "Air",   modality |-> "Mutable"],
    [name |-> "Cancer",      start |-> <<6, 21>>,  end |-> <<7, 22>>,  element |-> "Water", modality |-> "Cardinal"],
    [name |-> "Leo",         start |-> <<7, 23>>,  end |-> <<8, 22>>,  element |-> "Fire",  modality |-> "Fixed"],
    [name |-> "Virgo",       start |-> <<8, 23>>,  end |-> <<9, 22>>,  element |-> "Earth", modality |-> "Mutable"],
    [name |-> "Libra",       start |-> <<9, 23>>,  end |-> <<10, 22>>, element |-> "Air",   modality |-> "Cardinal"],
    [name |-> "Scorpio",     start |-> <<10, 23>>, end |-> <<11, 21>>, element |-> "Water", modality |-> "Fixed"],
    [name |-> "Sagittarius", start |-> <<11, 22>>, end |-> <<12, 21>>, element |-> "Fire",  modality |-> "Mutable"] >>

toDateParts(isoDate) ==
    LET parts == split(isoDate, "-")
        num(i) == IF i <= Len(parts) THEN Number(parts[i]) ELSE undefined
    IN  [y |-> num(1), m |-> num(2), d |-> num(3)]

\* the start comparison with the start day left out
afterStartExclusive(rec, m, d) ==
    (m > rec.start[1]) \/ (m = rec.start[1] /\ d > rec.start[2])

\* the comparisons of lines 482-483
afterStart(rec, m, d) ==
    (m > rec.start[1]) \/ (m = rec.start[1] /\ d >= rec.start[2])

\* the end comparison with the end day left out
beforeEndExclusive(rec, m, d) ==
    (m < rec.end[1]) \/ (m = rec.end[1] /\ d < rec.end[2])

beforeEnd(rec, m, d) ==
    (m < rec.end[1]) \/ (m = rec.end[1] /\ d <= rec.end[2])

\* the condition without its wraparound case
SignMatchesNoWrap(rec, m, d) ==
    afterStart(rec, m, d) /\ beforeEnd(rec, m, d)

\* the condition of line 484
SignMatches(rec, m, d) ==
    \/ (rec.start[1] <= rec.end[1] /\ afterStart(rec, m, d) /\ beforeEnd(rec, m, d))
    \/ (rec.start[1] > rec.end[1] /\ (afterStart(rec, m, d) \/ beforeEnd(rec, m, d)))

SignResult(rec) ==
    [sign |-> rec.name, element |-> rec.element, modality |-> rec.modality]

\* the for loop of lines 479-487 from record i on, then the default of line 488
RECURSIVE SignScan(_, _, _)
SignScan(i, m, d) ==
    IF i > Len(SIGN_TABLE)
    THEN [sign |-> "Capricorn", element |-> "Earth", modality |-> "Cardinal"]
    ELSE IF SignMatches(SIGN_TABLE[i], m, d) THEN SignResult(SIGN_TABLE[i])
    ELSE SignScan(i + 1, m, d)

\* the position of the record the for loop of lines 479-487 returns from,
\* counted from record i on; Len(SIGN_TABLE) + 1 when the loop ends without a
\* return and line 488 is reached
RECURSIVE SignScanIndex(_, _, _)
SignScanIndex(i, m, d) ==
    IF i > Len(SIGN_TABLE) THEN i
    ELSE IF SignMatches(SIGN_TABLE[i], m, d) THEN i
    ELSE SignScanIndex(i + 1, m, d)

getSunSign(isoDate) ==
    LET p == toDateParts(isoDate) IN SignScan(1, p.m, p.d)

(***************************************************************************)
(* Numerology.                                                             *)
(***************************************************************************)
MASTER_NUMBERS == {11, 22, 33}

\* n.toString().split('').map(Number).reduce((a,b) => a+b, 0)
DigitSumOf(n) ==
    LET t == toString(n) IN SumSeq([i \in 1..Len(t) |-> Number(<<t[i]>>)])

\* the same loop without the master-number test
RECURSIVE reduceDigitsNoMaster(_)
reduceDigitsNoMaster(n) ==
    IF n > 9 THEN reduceDigitsNoMaster(DigitSumOf(n)) ELSE n

RECURSIVE reduceDigits(_)
reduceDigits(n) ==
    IF n > 9 /\ n \notin MASTER_NUMBERS THEN reduceDigits(DigitSumOf(n)) ELSE n

\* isoDate.replace(/[^0-9]/g, '')
StripNonDigits(t) == SelectSeq(t, IsDigit)

lifePathFromDate(isoDate) ==
    LET kept   == StripNonDigits(isoDate)
        digits == [i \in 1..Len(kept) |-> Number(<<kept[i]>>)]
        sum    == SumSeq(digits)
    IN  reduceDigits(sum)

(***************************************************************************)
(* Chinese zodiac.                                                         *)
(***************************************************************************)
CHINESE_ANIMALS ==
    <<"Rat", "Ox", "Tiger", "Rabbit", "Dragon", "Snake",
      "Horse", "Goat", "Monkey", "Rooster", "Dog", "Pig">>

\* the year the cycle is anchored at (line 506)
RAT_YEAR == 2008

\* isoDate.slice(0, 4)
slice04(t) == SubSeq(t, 1, IF Len(t) < 4 THEN Len(t) ELSE 4)

\* the lookup with a single remainder: negative before the anchor year
chineseZodiacSingleRem(isoDate) ==
    LET y   == Number(slice04(isoDate))
        idx == JsRem(y - RAT_YEAR, Len(CHINESE_ANIMALS))
    IN  At(CHINESE_ANIMALS, idx)

\* the lookup anchored four years early
chineseZodiacWrongAnchor(isoDate) ==
    LET y   == Number(slice04(isoDate))
        idx == JsRem(y - (RAT_YEAR - 4), Len(CHINESE_ANIMALS))
        pos == JsRem(idx + 12, Len(CHINESE_ANIMALS))
    IN  At(CHINESE_ANIMALS, pos)

chineseZodiacFromYear(isoDate) ==
    LET y   == Number(slice04(isoDate))
        idx == JsRem(y - RAT_YEAR, 12)
        pos == JsRem(idx + 12, 12)
    IN  At(CHINESE_ANIMALS, pos)

(***************************************************************************)
(* Lucky number, lucky colour, traits.                                     *)
(***************************************************************************)
LUCKY_TABLE == <<3, 6, 9, 2, 1, 8, 7, 5, 4>>

\* the lookup without the step from 1-based life path to 0-based index
luckyNumberOffByOne(lifePath) ==
    At(LUCKY_TABLE, JsRem(lifePath, Len(LUCKY_TABLE)))

luckyNumber(lifePath) ==
    At(LUCKY_TABLE, JsRem(lifePath - 1, Len(LUCKY_TABLE)))

SIGN_NAMES == {SIGN_TABLE[i].name : i \in 1..Len(SIGN_TABLE)}

SIGN_TRAITS ==
    [s \in SIGN_NAMES |->
        CASE s = "Aries"       -> <<"bold", "energetic", "decisive", "pioneering">>
          [] s = "Taurus"      -> <<"steady", "sensual", "practical", "loyal">>
          [] s = "Gemini"      -> <<"curious", "adaptable", "witty", "communicative">>
          [] s = "Cancer"      -> <<"nurturing", "intuitive", "protective", "empathetic">>
          [] s = "Leo"         -> <<"confident", "creative", "warm", "charismatic">>
          [] s = "Virgo"       -> <<"analytical", "helpful", "meticulous", "grounded">>
          [] s = "Libra"       -> <<"harmonious", "diplomatic", "fair", "aesthetic">>
          [] s = "Scorpio"     -> <<"intense", "transformational", "private", "magnetic">>
          [] s = "Sagittarius" -> <<"expansive", "optimistic", "philosophical", "adventurous">>
          [] s = "Capricorn"   -> <<"ambitious", "disciplined", "resilient", "strategic">>
          [] s = "Aquarius"    -> <<"visionary", "inventive", "independent", "humanitarian">>
          [] s = "Pisces"      -> <<"dreamy", "compassionate", "artistic", "mystical">>]

SIGN_COLORS ==
    [s \in SIGN_NAMES |->
        CASE s = "Aries"       -> "#ef4444"
          [] s = "Taurus"      -> "#22c55e"
          [] s = "Gemini"      -> "#06b6d4"
          [] s = "Cancer"      -> "#14b8a6"
          [] s = "Leo"         -> "#f59e0b"
          [] s = "Virgo"       -> "#84cc16"
          [] s = "Libra"       -> "#a78bfa"
          [] s = "Scorpio"     -> "#e11d48"
          [] s = "Sagittarius" -> "#f97316"
          [] s = "Capricorn"   -> "#64748b"
          [] s = "Aquarius"    -> "#38bdf8"
          [] s = "Pisces"      -> "#60a5fa"]

(***************************************************************************)
(* Profile composer.  The summary is kept as the list of the values the    *)
(* template interpolates.                                                  *)
(***************************************************************************)
profileFromBirth(birth) ==
    LET sun     == getSunSign(birth.date)
        life    == lifePathFromDate(birth.date)
        chinese == chineseZodiacFromYear(birth.date)
        color   == IF sun.sign \in DOMAIN SIGN_COLORS THEN SIGN_COLORS[sun.sign] ELSE "#38bdf8"
        lucky   == luckyNumber(life)
        traits  == IF sun.sign \in DOMAIN SIGN_TRAITS THEN SIGN_TRAITS[sun.sign] ELSE <<>>
        summary == <<birth.name, sun.sign, sun.element, sun.modality,
                     SubSeq(traits, 1, IF Len(traits) < 3 THEN Len(traits) ELSE 3),
                     life, chinese>>
    IN  [name          |-> birth.name,
         sunSign       |-> sun.sign,
         element       |-> sun.element,
         modality      |-> sun.modality,
         lifePath      |-> life,
         chineseAnimal |-> chinese,
         luckyColor    |-> color,
         luckyNumber   |-> lucky,
         summary       |-> summary]

(***************************************************************************)
(* Seeded selector.  A JavaScript number that is an integer is kept exact  *)
(* as <<hi, lo>> with value hi * 2^16 + lo and lo in 0..2^16-1; hi is      *)
(* negative for a negative number.  An int32 has hi in -2^15..2^15-1, a    *)
(* uint32 has hi in 0..2^16-1.                                             *)
(***************************************************************************)
Two16 == 256 * 256

Two15 == 128 * 256

ToInt32(x) == <<((x[1] + Two15) % Two16) - Two15, x[2]>>

\* x >>> 0
ToUint32(x) == <<x[1] % Two16, x[2]>>

\* bitwise exclusive or of two values below 2^bits
RECURSIVE Xor16(_, _, _)
Xor16(a, b, bits) ==
    IF bits = 0 \/ (a = 0 /\ b = 0) THEN 0
    ELSE 2 * Xor16(a \div 2, b \div 2, bits - 1) + ((a + b) % 2)

\* x ^ y: both operands taken as int32, the result an int32
BitXor(x, y) ==
    LET a == ToUint32(x)
        b == ToUint32(y)
    IN  ToInt32(<<Xor16(a[1], b[1], 16), Xor16(a[2], b[2], 16)>>)

\* the 32-bit product of two 16-bit values
Mul16(a, b) ==
    LET p  == a * (b \div 256)
        lo == (p % 256) * 256 + a * (b % 256)
    IN  <<(p \div 256 + lo \div Two16) % Two16, lo % Two16>>

\* Math.imul(x, y): the low 32 bits of the product, as an int32
imul(x, y) ==
    LET a  == ToUint32(x)
        b  == ToUint32(y)
        ll == Mul16(a[2], b[2])
        hi == (ll[1] + Mul16(a[1], b[2])[2] + Mul16(a[2], b[1])[2]) % Two16
    IN  ToInt32(<<hi, ll[2]>>)

\* 2166136261 = 33052 * 2^16 + 40389 (line 539)
FNV_OFFSET_HI == 33052
FNV_OFFSET_LO == 40389
\* 16777619 = 256 * 2^16 + 403 (line 542)
FNV_PRIME_HI == 256
FNV_PRIME_LO == 403

LowerChars == <<"a", "b", "c", "d", "e", "f", "g", "h", "i", "j", "k", "l", "m",
                "n", "o", "p", "q", "r", "s", "t", "u", "v", "w", "x", "y", "z">>

UpperChars == <<"A", "B", "C", "D", "E", "F", "G", "H", "I", "J", "K", "L", "M",
                "N", "O", "P", "Q", "R", "S", "T", "U", "V", "W", "X", "Y", "Z">>

\* a placeholder for the single code unit 0xFFFF
HighChar == "U+FFFF"

\* the UTF-16 code units of the characters of the enumerated texts
CharCodes ==
    [c \in {DigitChars[i] : i \in 1..10} |-> 47 + (CHOOSE i \in 1..10 : DigitChars[i] = c)] @@
    [c \in {LowerChars[i] : i \in 1..26} |-> 96 + (CHOOSE i \in 1..26 : LowerChars[i] = c)] @@
    [c \in {UpperChars[i] : i \in 1..26} |-> 64 + (CHOOSE i \in 1..26 : UpperChars[i] = c)] @@
    (" " :> 32) @@ ("-" :> 45) @@ ("?" :> 63) @@ (HighChar :> Two16 - 1)

\* str.charCodeAt(i)
charCode(c) == CharCodes[c]

\* the loop with its two statements swapped: multiply, then XOR
RECURSIVE HashFromMulFirst(_, _, _)
HashFromMulFirst(h, str, i) ==
    IF i > Len(str) \/ h = <<>> THEN h
    ELSE HashFromMulFirst(BitXor(imul(h, <<FNV_PRIME_HI, FNV_PRIME_LO>>),
                                 <<0, charCode(str[i])>>), str, i + 1)

\* the loop of lines 540-543 from character i on
RECURSIVE HashFrom(_, _, _)
HashFrom(h, str, i) ==
    IF i > Len(str) \/ h = <<>> THEN h
    ELSE HashFrom(imul(BitXor(h, <<0, charCode(str[i])>>),
                       <<FNV_PRIME_HI, FNV_PRIME_LO>>), str, i + 1)

\* the value returned is num / 2^32
\* the return without the unsigned conversion
seedFromSigned(str) ==
    [num |-> HashFrom(<<FNV_OFFSET_HI, FNV_OFFSET_LO>>, str, 1)]

seedFrom(str) ==
    [num |-> ToUint32(HashFrom(<<FNV_OFFSET_HI, FNV_OFFSET_LO>>, str, 1))]

DAILY_AFFIRM == <<
    "Trust the process; your path unfolds as you act.",
    "Small consistent steps beat rare bursts of effort.",
    "Ask for help; collaboration brings faster clarity.",
    "Rest fuels insight-balance doing with being.",
    "Lead with kindness; it compounds quietly.",
    "Be curious; questions unlock opportunities.",
    "Declutter one thing; make room for growth.">>

\* Math.floor(seed * len) = floor(num * len / 2^32), exact in a double
\* because num * len stays below 2^53
FloorScaled(seed, len) ==
    (seed.num[1] * len + (seed.num[2] * len) \div Two16) \div Two16

\* the index scaled by one less than the list length
dailyMessageShortList(name, isoDate) ==
    LET seed == seedFrom(name \o isoDate)
        idx  == FloorScaled(seed, Len(DAILY_AFFIRM) - 1)
    IN  At(DAILY_AFFIRM, idx)

dailyMessage(name, isoDate) ==
    LET seed == seedFrom(name \o isoDate)
        idx  == FloorScaled(seed, Len(DAILY_AFFIRM))
    IN  At(DAILY_AFFIRM, idx)

(***************************************************************************)
(* Q&A router.  An answer is the base (the values its prefix "As a <sign>  *)
(* (<element>), Life Path <n>: " interpolates) and the template text that  *)
(* follows it; the templates are written here in ASCII.                    *)
(***************************************************************************)
\* the lower-case letter of each upper-case letter
LowerOf ==
    [c \in {UpperChars[i] : i \in 1..26} |-> LowerChars[CHOOSE i \in 1..26 : UpperChars[i] = c]]

\* question.toLowerCase() for the characters of the enumerated texts
toLowerCase(t) ==
    [i \in 1..Len(t) |-> IF t[i] \in DOMAIN LowerOf THEN LowerOf[t[i]] ELSE t[i]]

\* q.includes(k)
includes(q, k) ==
    \E i \in 0..(Len(q) - Len(k)) : \A j \in 1..Len(k) : q[i + j] = k[j]

KEYWORDS == <<
    <<"c", "a", "r", "e", "e", "r">>,
    <<"j", "o", "b">>,
    <<"w", "o", "r", "k">>,
    <<"i", "n", "t", "e", "r", "n", "s", "h", "i", "p">>,
    <<"s", "t", "u", "d", "y">>,
    <<"e", "x", "a", "m">>,
    <<"l", "o", "v", "e">>,
    <<"r", "e", "l", "a", "t", "i", "o", "n", "s", "h", "i", "p">>,
    <<"m", "a", "r", "r", "i", "a", "g", "e">>,
    <<"h", "e", "a", "l", "t", "h">>,
    <<"m", "o", "n", "e", "y">>,
    <<"f", "i", "n", "a", "n", "c", "e">>,
    <<"w", "e", "a", "l", "t", "h">> >>

\* the undefined that find gives when no keyword occurs, in a form that
\* compares with texts
noKey == <<undefined>>

\* KEYWORDS.find(k => q.includes(k)) from keyword i on
RECURSIVE FindFrom(_, _)
FindFrom(q, i) ==
    IF i > Len(KEYWORDS) THEN noKey
    ELSE IF includes(q, KEYWORDS[i]) THEN KEYWORDS[i]
    ELSE FindFrom(q, i + 1)

\* the keyword that occurs first in the question, not first in the list
FirstInQuestion(q) ==
    LET hits == {i \in 1..Len(KEYWORDS) : includes(q, KEYWORDS[i])}
        pos(i) == CHOOSE p \in 0..Len(q) :
                     /\ SubSeq(q, p + 1, p + Len(KEYWORDS[i])) = KEYWORDS[i]
                     /\ \A r \in 0..(p - 1) : SubSeq(q, r + 1, r + Len(KEYWORDS[i])) # KEYWORDS[i]
    IN  IF hits = {} THEN noKey
        ELSE KEYWORDS[CHOOSE i \in hits :
                        \A j \in hits : pos(i) < pos(j) \/ (pos(i) = pos(j) /\ i <= j)]

findKey(q) == FindFrom(q, 1)

CAREER_FIRE  == "act boldly the next 7-10 days; pitch ideas and network. Document wins daily; momentum is your ally."
CAREER_EARTH == "focus on process-refactor routines, learn one automation, and ship one small improvement this week."
CAREER_AIR   == "ideate and communicate-write a one-page plan, seek feedback, and iterate fast."
CAREER_OTHER == "trust intuition-choose fewer, deeper tasks; avoid overcommitting; flow > force."
STUDY_MUTABLE == "use spaced repetition + quick quizzes; rotate subjects to stay engaged."
STUDY_FIXED   == "create a strict block schedule; deep work in 50-min chunks, minimal context switching."
STUDY_OTHER   == "start with an outline and teach-back method; you'll learn fastest by explaining."
LOVE_TEXT    == "name your needs directly this week; schedule one shared ritual. Tiny, reliable gestures beat grand promises."
HEALTH_TEXT  == "prioritize sleep consistency and light morning movement; pick one nourishing meal you can repeat."
MONEY_TEXT   == "do a 30-minute review: subscriptions, 1% saving bump, and one low-risk upskill investment."
DEFAULT_TEXT == "clarify intention in one sentence, take the smallest next step today, and review results in 48 hours."

\* the same switch with the study templates chosen by element
TemplateStudyByElement(key, prof) ==
    CASE key \in {KEYWORDS[1], KEYWORDS[2], KEYWORDS[3], KEYWORDS[4]} ->
            IF prof.element = "Fire" THEN CAREER_FIRE
            ELSE IF prof.element = "Earth" THEN CAREER_EARTH
            ELSE IF prof.element = "Air" THEN CAREER_AIR
            ELSE CAREER_OTHER
      [] key \in {KEYWORDS[5], KEYWORDS[6]} ->
            IF prof.element = "Water" THEN STUDY_MUTABLE
            ELSE IF prof.element = "Earth" THEN STUDY_FIXED
            ELSE STUDY_OTHER
      [] key \in {KEYWORDS[7], KEYWORDS[8], KEYWORDS[9]} -> LOVE_TEXT
      [] key = KEYWORDS[10] -> HEALTH_TEXT
      [] key \in {KEYWORDS[11], KEYWORDS[12], KEYWORDS[13]} -> MONEY_TEXT
      [] OTHER -> DEFAULT_TEXT

\* the switch of lines 570-605 on the keyword found
Template(key, prof) ==
    CASE key \in {KEYWORDS[1], KEYWORDS[2], KEYWORDS[3], KEYWORDS[4]} ->
            IF prof.element = "Fire" THEN CAREER_FIRE
            ELSE IF prof.element = "Earth" THEN CAREER_EARTH
            ELSE IF prof.element = "Air" THEN CAREER_AIR
            ELSE CAREER_OTHER
      [] key \in {KEYWORDS[5], KEYWORDS[6]} ->
            IF prof.modality = "Mutable" THEN STUDY_MUTABLE
            ELSE IF prof.modality = "Fixed" THEN STUDY_FIXED
            ELSE STUDY_OTHER
      [] key \in {KEYWORDS[7], KEYWORDS[8], KEYWORDS[9]} -> LOVE_TEXT
      [] key = KEYWORDS[10] -> HEALTH_TEXT
      [] key \in {KEYWORDS[11], KEYWORDS[12], KEYWORDS[13]} -> MONEY_TEXT
      [] OTHER -> DEFAULT_TEXT

qaFallback(quest, prof) ==
    LET q    == toLowerCase(quest)
        key  == findKey(q)
        base == <<prof.sunSign, prof.element, prof.lifePath>>
    IN  [base |-> base, text |-> Template(key, prof)]

(***************************************************************************)
(* Enumerated inputs: date texts the form validation (birthSchema, the     *)
(* pattern dddd-dd-dd) lets through.                                       *)
(***************************************************************************)
RECURSIVE Pad(_, _)
Pad(n, w) == IF w = 0 THEN <<>> ELSE Pad(n \div 10, w - 1) \o <<DigitChars[(n % 10) + 1]>>

DateText(y, m, d) == Pad(y, 4) \o <<"-">> \o Pad(m, 2) \o <<"-">> \o Pad(d, 2)

\* the sign lookup ignores the year: a leap year and a common year
SignYears == {2023, 2024}

\* 0000 and 9999 bound the digit sum (0 and 72 with month and day); the
\* others give every sum between, the master numbers included
LifeYears == {0, 1989, 1990, 9999}

ProfileYears == {0, 1990}

TwoDigits == 0..99

FourDigits == 0..9999

\* the life-path values the numerology documents
LIFE_PATHS == (1..9) \cup MASTER_NUMBERS

SampleNames == {<<"A", "n", "u">>}

RECURSIVE TextsUpTo(_, _)
TextsUpTo(chars, n) ==
    IF n = 0 THEN {<<>>}
    ELSE LET shorter == TextsUpTo(chars, n - 1)
         IN  shorter \cup {Append(t, c) : t \in shorter, c \in chars}

NameChars == {"a", "z", "Z", " ", "9", HighChar}

\* names of up to MaxNameLen characters, the empty name included
Names == TextsUpTo(NameChars, MaxNameLen)

QuestionTokens ==
    {KEYWORDS[i] : i \in 1..Len(KEYWORDS)} \cup
    {<<"C", "a", "r", "e", "e", "r">>,
     <<"J", "O", "B">>,
     <<"c", "a", "r">>,
     <<"e", "e", "r">>,
     <<"l", "u", "c", "k", "?">>}

RECURSIVE Concat(_)
Concat(ws) == IF ws = <<>> THEN <<>> ELSE Head(ws) \o Concat(Tail(ws))

RECURSIVE WordLists(_)
WordLists(n) ==
    IF n = 0 THEN {<<>>}
    ELSE LET shorter == WordLists(n - 1)
         IN  shorter \cup {Append(ws, w) : ws \in shorter, w \in QuestionTokens}

\* questions of up to MaxWords tokens, the empty question included
Questions == {Concat(ws) : ws \in WordLists(MaxWords)}

\* the profile of one birthday per sign: every element with every modality
SampleProfiles ==
    {profileFromBirth([name |-> <<"A", "n", "u">>,
                       date |-> DateText(1990, SIGN_TABLE[i].start[1], SIGN_TABLE[i].start[2]),
                       time |-> "06:30", place |-> "Pune", tzOffset |-> "+05:30"]) :
        i \in 1..Len(SIGN_TABLE)}

\* today's date as dailyMessage gets it, and the empty text
DailyDates == {<<>>} \cup {DateText(y, m, d) : y \in {2024, 2025}, m \in {1, 12}, d \in {1, 31}}

(***************************************************************************)
(* The calls.                                                              *)
(***************************************************************************)
\* null, and a value that is present: a sequence of no or one element
null == <<>>

\* the form as useState (line 37) and Reset (line 272) set it
EmptyInput ==
    [name |-> <<>>, date |-> <<>>, time |-> <<>>, place |-> <<>>,
     tzOffset |-> <<"+", "0", "5", ":", "3", "0">>]

\* the initial values of the state hooks, lines 35-47, with the mode and the
\* key localStorage holds
Mounted(m, k) ==
    /\ mode = m
    /\ apiKey = k
    /\ input = EmptyInput
    /\ question = <<>>
    /\ profile = null
    /\ response = <<>>
    /\ loading = FALSE
    /\ pending = null
    /\ answeredFor = null

\* the engine on its own: the component mounted over an empty localStorage
Init ==
    /\ pc = "idle"
    /\ arg = <<>>
    /\ ret = <<>>
    /\ Mounted("Rule-based", <<>>)

CallGetSunSign ==
    /\ pc = "idle"
    /\ \E y \in SignYears, m \in TwoDigits, d \in TwoDigits :
         /\ arg' = [isoDate |-> DateText(y, m, d)]
         /\ ret' = getSunSign(DateText(y, m, d))
    /\ pc' = "getSunSign"
    /\ UNCHANGED appVars

\* the scan of getSunSign (lines 479-488) on the numbers m and d
CallSignScan ==
    /\ pc = "idle"
    /\ \E m \in -ScanSpan..ScanSpan, d \in -ScanSpan..ScanSpan :
         /\ arg' = [m |-> m, d |-> d]
         /\ ret' = [index |-> SignScanIndex(1, m, d), result |-> SignScan(1, m, d)]
    /\ pc' = "signScan"
    /\ UNCHANGED appVars

CallLifePathFromDate ==
    /\ pc = "idle"
    /\ \E y \in LifeYears, m \in TwoDigits, d \in TwoDigits :
         /\ arg' = [isoDate |-> DateText(y, m, d)]
         /\ ret' = lifePathFromDate(DateText(y, m, d))
    /\ pc' = "lifePathFromDate"
    /\ UNCHANGED appVars

CallChineseZodiacFromYear ==
    /\ pc = "idle"
    /\ \E y \in FourDigits, m \in {1}, d \in {1} :
         /\ arg' = [isoDate |-> DateText(y, m, d)]
         /\ ret' = chineseZodiacFromYear(DateText(y, m, d))
    /\ pc' = "chineseZodiacFromYear"
    /\ UNCHANGED appVars

CallLuckyNumber ==
    /\ pc = "idle"
    /\ \E lp \in LIFE_PATHS :
         /\ arg' = [lifePath |-> lp]
         /\ ret' = luckyNumber(lp)
    /\ pc' = "luckyNumber"
    /\ UNCHANGED appVars

CallProfileFromBirth ==
    /\ pc = "idle"
    /\ \E name \in SampleNames, y \in ProfileYears, m \in TwoDigits, d \in TwoDigits :
         LET birth == [name |-> name, date |-> DateText(y, m, d), time |-> "06:30",
                       place |-> "Pune", tzOffset |-> "+05:30"]
         IN  /\ arg' = [input |-> birth]
             /\ ret' = profileFromBirth(birth)
    /\ pc' = "profileFromBirth"
    /\ UNCHANGED appVars

CallDailyMessage ==
    /\ pc = "idle"
    /\ \E name \in Names, isoDate \in DailyDates :
         /\ arg' = [name |-> name, isoDate |-> isoDate]
         /\ ret' = dailyMessage(name, isoDate)
    /\ pc' = "dailyMessage"
    /\ UNCHANGED appVars

\* seedFrom on the text dailyMessage builds from a name and a date
CallSeedFrom ==
    /\ pc = "idle"
    /\ \E name \in Names, isoDate \in DailyDates :
         /\ arg' = [str |-> name \o isoDate]
         /\ ret' = seedFrom(name \o isoDate)
    /\ pc' = "seedFrom"
    /\ UNCHANGED appVars

CallQaFallback ==
    /\ pc = "idle"
    /\ \E quest \in Questions, prof \in SampleProfiles :
         /\ arg' = [question |-> quest, profile |-> prof]
         /\ ret' = qaFallback(quest, prof)
    /\ pc' = "qaFallback"
    /\ UNCHANGED appVars

Next ==
    \/ CallGetSunSign
    \/ CallSignScan
    \/ CallQaFallback
    \/ CallDailyMessage
    \/ CallSeedFrom
    \/ CallLifePathFromDate
    \/ CallChineseZodiacFromYear
    \/ CallLuckyNumber
    \/ CallProfileFromBirth

Spec == Init /\ [][Next]_vars

(***************************************************************************)
(* The App component.  A text that is null or present (the profile) is a   *)
(* sequence of no or one element; the response is the empty text or the    *)
(* one answer it shows: a qaFallback answer, [reply |-> text] from the     *)
(* chat completion, or [error |-> message] for "Error: " + message.        *)
(***************************************************************************)
Modes == {"Rule-based", "OpenAI"}

\* the key typed in the settings dialog, or none
ApiKeys == {<<>>, <<"s", "k">>}

AllDigits(t, positions) == \A i \in positions : IsDigit(t[i])

\* birthSchema, lines 9-15
birthSchemaOk(form) ==
    /\ Len(form.name) >= 1
    /\ Len(form.date) = 10 /\ AllDigits(form.date, {1, 2, 3, 4, 6, 7, 9, 10})
                         /\ form.date[5] = "-" /\ form.date[8] = "-"
    /\ Len(form.time) = 5  /\ AllDigits(form.time, {1, 2, 4, 5}) /\ form.time[3] = ":"
    /\ Len(form.place) >= 1
    /\ Len(form.tzOffset) = 6 /\ form.tzOffset[1] \in {"+", "-"}
                            /\ AllDigits(form.tzOffset, {2, 3, 5, 6})
                            /\ form.tzOffset[4] = ":"

FilledInput(name, date) ==
    [name |-> name, date |-> date, time |-> <<"0", "6", ":", "3", "0">>,
     place |-> <<"P", "u", "n", "e">>, tzOffset |-> EmptyInput.tzOffset]

\* what the form is filled with: nothing, two people, a date the pattern
\* rejects
FormInputs ==
    {EmptyInput,
     FilledInput(<<"A", "n", "u">>, DateText(1990, 3, 21)),
     FilledInput(<<"R", "a", "j">>, DateText(1985, 12, 25)),
     FilledInput(<<"A", "n", "u">>, <<"1", "9", "9", "0">>)}

\* what is typed as the question
TypedQuestions == {<<>>, <<" ">>, <<"j", "o", "b">>, <<" ", "h", "i">>}

\* what the completion carries as content (none, or a text) and what a
\* failed request carries as its message
Contents == {<<>>, <<"o", "k", " ">>}
ErrorTexts == {<<>>, <<"4", "0", "1">>}

\* the fallback text of line 111, written as one piece
SORRY_TEXT == <<"Sorry, I couldn't generate a response.">>

\* String.prototype.trim for the blank character
RECURSIVE trimStart(_)
trimStart(t) == IF t # <<>> /\ Head(t) = " " THEN trimStart(Tail(t)) ELSE t

RECURSIVE trimEnd(_)
trimEnd(t) ==
    IF t # <<>> /\ t[Len(t)] = " " THEN trimEnd(SubSeq(t, 1, Len(t) - 1)) ELSE t

trim(t) == trimEnd(trimStart(t))

AppInit ==
    /\ pc = "idle"
    /\ arg = <<>>
    /\ ret = <<>>
    /\ \E m \in Modes, k \in ApiKeys : Mounted(m, k)

\* the mode selects, lines 193 and 386
SetMode ==
    /\ \E m \in Modes : mode' = m
    /\ UNCHANGED <<apiKey, input, question, profile, response, loading, pending,
                   answeredFor, frame>>

\* the key field of the settings dialog, line 376
SetApiKey ==
    /\ \E k \in ApiKeys : apiKey' = k
    /\ UNCHANGED <<mode, input, question, profile, response, loading, pending,
                   answeredFor, frame>>

\* the fields of the birth form, lines 221-257, filled in
SetInput ==
    /\ \E form \in FormInputs : input' = form
    /\ UNCHANGED <<mode, apiKey, question, profile, response, loading, pending,
                   answeredFor, frame>>

\* the question field, line 336
SetQuestion ==
    /\ \E q \in TypedQuestions : question' = q
    /\ UNCHANGED <<mode, apiKey, input, profile, response, loading, pending,
                   answeredFor, frame>>

\* lines 61-70
handleGenerate ==
    /\ IF ~birthSchemaOk(input)
       THEN UNCHANGED <<profile, response, answeredFor>>
       ELSE /\ profile' = <<profileFromBirth(input)>>
            /\ response' = <<>>
            /\ answeredFor' = null
    /\ UNCHANGED <<mode, apiKey, input, question, loading, pending, frame>>

\* the onClick of the Reset button, line 272
Reset ==
    /\ input' = EmptyInput
    /\ profile' = null
    /\ response' = <<>>
    /\ question' = <<>>
    /\ answeredFor' = null
    /\ UNCHANGED <<mode, apiKey, loading, pending, frame>>

\* lines 114-130 of handleAsk, up to the await of askLLM or, on the paths
\* without a request, to the end; the button is disabled while loading
\* (line 341)
handleAsk ==
    /\ ~loading
    /\ IF profile = null \/ trim(question) = <<>>
       THEN UNCHANGED <<response, loading, pending, answeredFor>>
       ELSE IF mode = "OpenAI"
       THEN IF apiKey = <<>>
            THEN \* setLoading(true), the alert, setLoading(false), finally
                 /\ loading' = FALSE
                 /\ UNCHANGED <<response, pending, answeredFor>>
            ELSE /\ loading' = TRUE
                 /\ pending' = <<[q |-> question, prof |-> profile[1]]>>
                 /\ UNCHANGED <<response, answeredFor>>
       ELSE /\ response' = <<qaFallback(question, profile[1])>>
            /\ answeredFor' = profile
            /\ loading' = FALSE
            /\ UNCHANGED pending
    /\ UNCHANGED <<mode, apiKey, input, question, profile, frame>>

\* the value askLLM returns, line 111
completionText(content) ==
    IF trim(content) = <<>> THEN SORRY_TEXT ELSE trim(content)

\* the request succeeds: askLLM returns, then lines 134 and 139
askResolved ==
    /\ pending # null
    /\ \E content \in Contents :
         response' = <<[reply |-> completionText(content)]>>
    /\ answeredFor' = <<pending[1].prof>>
    /\ loading' = FALSE
    /\ pending' = null
    /\ UNCHANGED <<mode, apiKey, input, question, profile, frame>>

\* the catch block without the finally block after it
askRejectedNoFinally ==
    /\ pending # null
    /\ \E message \in ErrorTexts : response' = <<[error |-> message]>>
    /\ answeredFor' = <<pending[1].prof>>
    /\ pending' = null
    /\ UNCHANGED <<mode, apiKey, input, question, profile, loading, frame>>

\* the request fails (fetch rejects, or the status is not ok and line 107
\* throws): lines 136 and 139
askRejected ==
    /\ pending # null
    /\ \E message \in ErrorTexts : response' = <<[error |-> message]>>
    /\ answeredFor' = <<pending[1].prof>>
    /\ loading' = FALSE
    /\ pending' = null
    /\ UNCHANGED <<mode, apiKey, input, question, profile, frame>>

AppNext ==
    \/ SetMode
    \/ SetApiKey
    \/ SetInput
    \/ SetQuestion
    \/ handleGenerate
    \/ Reset
    \/ handleAsk
    \/ askResolved
    \/ askRejected

AppSpec == AppInit /\ [][AppNext]_vars

\* the request of a suspended handleAsk settles: fetch resolves or rejects
FairAppSpec ==
    AppInit /\ [][AppNext]_vars /\ WF_vars(askResolved \/ askRejected)

(***************************************************************************)
(* Properties.                                                             *)
(***************************************************************************)
IsLeap(y) == (y % 4 = 0 /\ y % 100 # 0) \/ y % 400 = 0

DaysInMonth(y, m) ==
    IF m = 2 THEN (IF IsLeap(y) THEN 29 ELSE 28)
    ELSE IF m \in {4, 6, 9, 11} THEN 30 ELSE 31

ValidDate(y, m, d) == m \in 1..12 /\ d \in 1..DaysInMonth(y, m)

\* the month and day characters of a date text
MonthDay(t) == SubSeq(t, 6, 10)

\* the year characters of a date text
YearText(t) == SubSeq(t, 1, 4)

\* C1: for every valid calendar date (Feb 29 included) exactly one of the 12
\* SIGN_TABLE records satisfies the match condition of getSunSign, and that
\* record is the one getSunSign returns.
C1_ExactlyOneSign ==
    pc = "getSunSign" =>
        LET p == toDateParts(arg.isoDate)
            hits == {i \in 1..Len(SIGN_TABLE) : SignMatches(SIGN_TABLE[i], p.m, p.d)}
        IN  ValidDate(p.y, p.m, p.d) =>
                /\ Cardinality(hits) = 1
                /\ \A i \in hits : ret = SignResult(SIGN_TABLE[i])

C1_Witness ==
    /\ pc = "getSunSign"
    /\ arg.isoDate = <<"2", "0", "2", "4", "-", "0", "2", "-", "2", "9">>
    /\ ret.sign = "Pisces"

NextSign(i) == IF i = Len(SIGN_TABLE) THEN 1 ELSE i + 1

\* C2: getSunSign is inclusive at both ends of every interval: a sign's start
\* day and end day map to that sign and the day after an end day maps to the
\* next sign; 03-21 is Aries, 03-20 Pisces, 12-21 Sagittarius, 12-22
\* Capricorn, 01-19 Capricorn and 01-20 Aquarius, in every year.
C2_InclusiveBoundaries ==
    pc = "getSunSign" =>
        LET p  == toDateParts(arg.isoDate)
            md == MonthDay(arg.isoDate)
        IN  /\ \A i \in 1..Len(SIGN_TABLE) :
                 LET rec == SIGN_TABLE[i] IN
                 /\ <<p.m, p.d>> = rec.start => ret.sign = rec.name
                 /\ <<p.m, p.d>> = rec.end => ret.sign = rec.name
                 /\ <<p.m, p.d>> = <<rec.end[1], rec.end[2] + 1>> =>
                        ret.sign = SIGN_TABLE[NextSign(i)].name
            /\ md = <<"0", "3", "-", "2", "1">> => ret.sign = "Aries"
            /\ md = <<"0", "3", "-", "2", "0">> => ret.sign = "Pisces"
            /\ md = <<"1", "2", "-", "2", "1">> => ret.sign = "Sagittarius"
            /\ md = <<"1", "2", "-", "2", "2">> => ret.sign = "Capricorn"
            /\ md = <<"0", "1", "-", "1", "9">> => ret.sign = "Capricorn"
            /\ md = <<"0", "1", "-", "2", "0">> => ret.sign = "Aquarius"

C2_Witness ==
    /\ pc = "getSunSign"
    /\ arg.isoDate = <<"2", "0", "2", "3", "-", "0", "3", "-", "2", "1">>
    /\ ret.sign = "Aries"

\* the sum of the decimal digits of n, by arithmetic
RECURSIVE ArithDigitSum(_)
ArithDigitSum(n) == IF n < 10 THEN n ELSE (n % 10) + ArithDigitSum(n \div 10)

\* the sum of the digit characters of a text
TextDigitSum(t) ==
    SumSeq([i \in 1..Len(t) |-> IF IsDigit(t[i]) THEN DigitVal(t[i]) ELSE 0])

StopsReduction(v) == v <= 9 \/ v \in {11, 22, 33}

\* the k-th value of the sequence s, digit sum of s, digit sum of that, ...
RECURSIVE Orbit(_, _)
Orbit(s, k) == IF k = 0 THEN s ELSE ArithDigitSum(Orbit(s, k - 1))

\* C3: lifePathFromDate returns the first value of the sequence (digit sum of
\* the date text, its digit sum, ...) that is <= 9 or 11, 22 or 33; such a
\* value is reached within three reductions; a digit sum of 11, 22 or 33 is
\* returned unreduced, a digit sum of 29 gives 11, and 1990-01-01 gives 3.
C3_LifePathReduction ==
    pc = "lifePathFromDate" =>
        LET s == TextDigitSum(arg.isoDate) IN
        /\ \E k \in 0..3 :
              /\ StopsReduction(Orbit(s, k))
              /\ \A j \in 0..(k - 1) : ~StopsReduction(Orbit(s, j))
              /\ ret = Orbit(s, k)
        /\ s \in {11, 22, 33} => ret = s
        /\ s = 29 => ret = 11
        /\ arg.isoDate = <<"1", "9", "9", "0", "-", "0", "1", "-", "0", "1">> => ret = 3

C3_Witness ==
    /\ pc = "lifePathFromDate"
    /\ arg.isoDate = <<"1", "9", "8", "9", "-", "0", "1", "-", "0", "1">>
    /\ ret = 11

\* C4: for every date text the form validation accepts, lifePathFromDate and
\* the lifePath field of profileFromBirth are one of 1..9, 11, 22, 33.
C4_LifePathInRange ==
    /\ pc = "lifePathFromDate" => ret \in (1..9) \cup {11, 22, 33}
    /\ pc = "profileFromBirth" => ret.lifePath \in (1..9) \cup {11, 22, 33}

\* C5 as stated: chineseZodiacFromYear gives "Rat" for the year 2008 and
\* "Dragon" for the year 2020.
C5_Rat2008Dragon2020 ==
    pc = "chineseZodiacFromYear" =>
        /\ YearText(arg.isoDate) = <<"2", "0", "0", "8">> => ret = "Rat"
        /\ YearText(arg.isoDate) = <<"2", "0", "2", "0">> => ret = "Dragon"

\* C5 amended: chineseZodiacFromYear gives "Rat" for the year 2008 and, twelve
\* years on, "Rat" again for the year 2020; "Dragon" is the year 2012.
C5_Rat2008Rat2020 ==
    pc = "chineseZodiacFromYear" =>
        /\ YearText(arg.isoDate) = <<"2", "0", "0", "8">> => ret = "Rat"
        /\ YearText(arg.isoDate) = <<"2", "0", "2", "0">> => ret = "Rat"
        /\ YearText(arg.isoDate) = <<"2", "0", "1", "2">> => ret = "Dragon"

C5_Witness ==
    /\ pc = "chineseZodiacFromYear"
    /\ YearText(arg.isoDate) = <<"2", "0", "2", "0">>
    /\ ret = "Rat"

\* the value of a text of decimal digits, most significant first
DigitsValue(t) ==
    SumSeq([i \in 1..Len(t) |-> DigitVal(t[i]) * 10 ^ (Len(t) - i)])

\* C6: for every four-digit year y, before 2008 as well, the animal returned
\* is the one at index (y - 2008) mod 12 (the mathematical remainder, in
\* 0..11), never undefined, and the year y + 12 gives the same animal.
C6_ZodiacIndexIsMod12 ==
    pc = "chineseZodiacFromYear" =>
        LET y == DigitsValue(YearText(arg.isoDate))
            k == (y - 2008) % 12
        IN  /\ k \in 0..11
            /\ ret # undefined
            /\ ret = CHINESE_ANIMALS[k + 1]
            /\ y + 12 <= 9999 => chineseZodiacFromYear(DateText(y + 12, 1, 1)) = ret

C6_Witness ==
    /\ pc = "chineseZodiacFromYear"
    /\ YearText(arg.isoDate) = <<"1", "9", "9", "0">>
    /\ ret = "Horse"

\* C7: for every life path in 1..9, 11, 22, 33 luckyNumber returns the table
\* entry at (lifePath - 1) mod 9, master numbers included, an integer in
\* 1..9; the table is a permutation of 1..9, so no other life path in 1..9
\* has the same lucky number.
C7_LuckyNumberInTable ==
    pc = "luckyNumber" =>
        LET lp == arg.lifePath IN
        /\ ret = LUCKY_TABLE[((lp - 1) % 9) + 1]
        /\ ret \in 1..9
        /\ Len(LUCKY_TABLE) = 9
        /\ {LUCKY_TABLE[i] : i \in 1..Len(LUCKY_TABLE)} = 1..9
        /\ \A other \in (1..9) \ {lp} : lp \in 1..9 => luckyNumber(other) # ret

C7_Witness ==
    /\ pc = "luckyNumber"
    /\ arg.lifePath = 11
    /\ ret = 6

\* C8: dailyMessage is total: for every name and date text, the empty text
\* included, the hash after the unsigned conversion is in 0..2^32-1, the
\* index floor(hash * 7 / 2^32) is in 0..6 and the result is the phrase of
\* DAILY_AFFIRM at that index, never undefined.
C8_DailyMessageTotal ==
    pc = "dailyMessage" =>
        LET seed == seedFrom(arg.name \o arg.isoDate)
            idx  == (seed.num[1] * 7 + (seed.num[2] * 7) \div 65536) \div 65536
        IN  /\ seed.num[1] \in 0..65535
            /\ seed.num[2] \in 0..65535
            /\ idx \in 0..6
            /\ Len(DAILY_AFFIRM) = 7
            /\ ret = DAILY_AFFIRM[idx + 1]
            /\ ret # undefined

C8_Witness ==
    /\ pc = "dailyMessage"
    /\ arg.name = <<>>
    /\ arg.isoDate = <<>>
    /\ ret = DAILY_AFFIRM[4]

\* the upper-case letter of each lower-case letter
UpperOf ==
    [l \in {LowerChars[n] : n \in 1..26} |-> UpperChars[CHOOSE n \in 1..26 : LowerChars[n] = l]]

\* a character of a question equals a lower-case keyword character up to case
SameLetter(c, l) == c = l \/ (l \in DOMAIN UpperOf /\ c = UpperOf[l])

\* keyword k occurs in the question, case ignored
OccursIn(k, quest) ==
    \E off \in 0..(Len(quest) - Len(k)) :
        \A j \in 1..Len(k) : SameLetter(quest[off + j], k[j])

BucketOfKeyword(i) ==
    CASE i \in 1..4 -> "career"
      [] i \in 5..6 -> "study"
      [] i \in 7..9 -> "love"
      [] i = 10 -> "health"
      [] i \in 11..13 -> "money"

BucketOfText(text) ==
    CASE text \in {CAREER_FIRE, CAREER_EARTH, CAREER_AIR, CAREER_OTHER} -> "career"
      [] text \in {STUDY_MUTABLE, STUDY_FIXED, STUDY_OTHER} -> "study"
      [] text = LOVE_TEXT -> "love"
      [] text = HEALTH_TEXT -> "health"
      [] text = MONEY_TEXT -> "money"
      [] text = DEFAULT_TEXT -> "default"
      [] OTHER -> "none"

\* the bucket of the first keyword, in list order, that occurs in the question
RoutedBucket(quest) ==
    LET hits == {i \in 1..Len(KEYWORDS) : OccursIn(KEYWORDS[i], quest)}
    IN  IF hits = {} THEN "default"
        ELSE BucketOfKeyword(CHOOSE i \in hits : \A j \in hits : i <= j)

\* C9: qaFallback answers from the bucket of the first keyword, in the list
\* order career, job, work, internship, study, exam, love, relationship,
\* marriage, health, money, finance, wealth, that occurs in the lower-cased
\* question, wherever in the question it occurs; with no keyword it gives
\* the "clarify intention" text.
C9_FirstKeywordInListOrder ==
    pc = "qaFallback" =>
        /\ BucketOfText(ret.text) = RoutedBucket(arg.question)
        /\ (\A i \in 1..Len(KEYWORDS) : ~OccursIn(KEYWORDS[i], arg.question))
              => ret.text = DEFAULT_TEXT

C9_Witness ==
    /\ pc = "qaFallback"
    /\ arg.question = <<"l", "o", "v", "e", "c", "a", "r", "e", "e", "r">>
    /\ BucketOfText(ret.text) = "career"

\* C10: in the career bucket the text is chosen by the element alone, four
\* different texts ("act boldly" for Fire); in the study bucket by the
\* modality alone, three different texts; in the love, health, money and
\* default buckets it is one fixed text; the answer is never empty.
C10_TemplateByElementOrModality ==
    pc = "qaFallback" =>
        LET b  == RoutedBucket(arg.question)
            el == arg.profile.element
            mo == arg.profile.modality
        IN  /\ b = "career" =>
                 ret.text = (CASE el = "Fire" -> CAREER_FIRE
                               [] el = "Earth" -> CAREER_EARTH
                               [] el = "Air" -> CAREER_AIR
                               [] el = "Water" -> CAREER_OTHER)
            /\ b = "study" =>
                 ret.text = (CASE mo = "Mutable" -> STUDY_MUTABLE
                               [] mo = "Fixed" -> STUDY_FIXED
                               [] mo = "Cardinal" -> STUDY_OTHER)
            /\ b = "love" => ret.text = LOVE_TEXT
            /\ b = "health" => ret.text = HEALTH_TEXT
            /\ b = "money" => ret.text = MONEY_TEXT
            /\ b = "default" => ret.text = DEFAULT_TEXT
            /\ Cardinality({CAREER_FIRE, CAREER_EARTH, CAREER_AIR, CAREER_OTHER}) = 4
            /\ Cardinality({STUDY_MUTABLE, STUDY_FIXED, STUDY_OTHER}) = 3
            /\ ret.text \notin {"", undefined}
            /\ ret.base = <<arg.profile.sunSign, el, arg.profile.lifePath>>

C10_Witness ==
    /\ pc = "qaFallback"
    /\ arg.question = <<"C", "a", "r", "e", "e", "r">>
    /\ arg.profile.element = "Fire"
    /\ ret.text = CAREER_FIRE

\* C15: for every pair of integers (month, day), out-of-range values such as
\* month 0 or 13 and day 0 or 32 included, the scan of getSunSign returns
\* from a SIGN_TABLE record that matches, so the default return of line 488
\* is never reached for numeric input.
C15_ScanAlwaysMatches ==
    /\ pc = "signScan" =>
          /\ \E i \in 1..Len(SIGN_TABLE) : SignMatches(SIGN_TABLE[i], arg.m, arg.d)
          /\ ret.index \in 1..Len(SIGN_TABLE)
          /\ ret.result = SignResult(SIGN_TABLE[ret.index])
    /\ pc = "getSunSign" =>
          LET p == toDateParts(arg.isoDate)
          IN  SignScanIndex(1, p.m, p.d) \in 1..Len(SIGN_TABLE)

\* month 13 with day 32 is scanned and a record is returned
C15_Witness ==
    /\ pc = "signScan"
    /\ arg.m = 13
    /\ arg.d = 32
    /\ ret.index \in 1..Len(SIGN_TABLE)

\* bit k of a natural number
BitOf(n, k) == (n \div (2 ^ k)) % 2

\* XOR of two numbers below 2^16, bit by bit from bit k down
RECURSIVE XorBits(_, _, _)
XorBits(a, b, k) ==
    IF k < 0 THEN 0
    ELSE (IF BitOf(a, k) # BitOf(b, k) THEN 2 ^ k ELSE 0) + XorBits(a, b, k - 1)

\* one step of the unsigned reference, ((h XOR c) * 16777619) mod 2^32, on
\* h = hi * 2^16 + lo with both halves in 0 .. 2^16 - 1 and c below 2^16
\* (16777619 = 256 * 2^16 + 403)
FnvStep(h, c) ==
    LET lo  == XorBits(h[2], c, 15)
        low == lo * 403
    IN  <<(h[1] * 403 + lo * 256 + low \div 65536) % 65536, low % 65536>>

\* the unsigned FNV-1a hash of a text, starting from 2166136261
RECURSIVE FnvUnsigned(_)
FnvUnsigned(str) ==
    IF str = <<>> THEN <<33052, 40389>>
    ELSE FnvStep(FnvUnsigned(SubSeq(str, 1, Len(str) - 1)), charCode(str[Len(str)]))

\* C12: seedFrom returns h / 2^32 where h is the 32-bit FNV-1a hash with
\* unsigned wraparound of the text's code units; the signed 32-bit
\* intermediate values of the code followed by the final unsigned conversion
\* give the same h as the unsigned reference.
C12_SignedEqualsUnsignedFnv ==
    pc = "seedFrom" =>
        /\ ret.num = FnvUnsigned(arg.str)
        /\ ret.num[1] \in 0..65535
        /\ ret.num[2] \in 0..65535

\* a text whose hash is negative as a signed 32-bit value before the
\* unsigned conversion, and "a", whose FNV-1a hash is 0xE40C292C
C12_Witness ==
    /\ pc = "seedFrom"
    /\ arg.str = <<"a">>
    /\ seedFromSigned(arg.str).num[1] < 0
    /\ ret.num = <<58380, 10540>>

\* C11: every index 0..6 of DAILY_AFFIRM is selected by dailyMessage for at
\* least one input text: for each index, one of the calls open in the idle
\* state returns the phrase at that index.
C11_EveryIndexSelected ==
    pc = "idle" =>
        \A i \in 0..6 :
            \E name \in Names, isoDate \in DailyDates :
                /\ FloorScaled(seedFrom(name \o isoDate), Len(DAILY_AFFIRM)) = i
                /\ dailyMessage(name, isoDate) = DAILY_AFFIRM[i + 1]

\* a call that selects the last index, 6
C11_Witness ==
    /\ pc = "dailyMessage"
    /\ FloorScaled(seedFrom(arg.name \o arg.isoDate), Len(DAILY_AFFIRM)) = 6
    /\ ret = DAILY_AFFIRM[7]

\* C13: a non-empty response is only ever held together with the profile it
\* was computed for: in no reachable state is the response non-empty while
\* the profile is null or differs from the profile passed to the call that
\* produced the response.
C13_ResponseMatchesProfile ==
    response # <<>> => (profile # null /\ profile = answeredFor)

\* C14: every invocation of handleAsk leaves loading false once it completes
\* (loading is true only while a request is suspended, and the step that
\* resumes it stores an answer or an error text and clears loading), and
\* with every request settling, loading = true leads to loading = false.
C14_LoadingLeadsToNotLoading ==
    /\ [](pending = null => ~loading)
    /\ [][pending # null /\ pending' = null => ~loading' /\ response' # <<>>]_vars
    /\ [][handleAsk /\ pending' = null => ~loading']_vars
    /\ (loading ~> ~loading)

\* a failed request has completed: the error text is held and loading is
\* false again
C14_Witness ==
    /\ ~loading
    /\ pending = null
    /\ response # <<>>
    /\ "error" \in DOMAIN response[1]

=============================================================================
